---- MODULE Spec2Model ----
(***************************************************************************)
(* A model of src/src/SqlTranslate.cpp (SqlRender): the tokenizer, the     *)
(* search-pattern compiler, the matcher and the rewriter.                  *)
(*                                                                         *)
(* Strings are sequences of one-character strings.  Offsets are 0-based,   *)
(* as in the C++ code; At and Substr convert to TLA+'s 1-based sequences.  *)
(***************************************************************************)
EXTENDS Integers, Sequences, FiniteSets, TLC

VARIABLES
    pc,                  \* position of the program
    sql,                 \* the argument of tokenize / search
    tokens,              \* tokenize's return value / search's local
    pattern,             \* parseSearchPattern's argument
    parsedPattern,       \* parseSearchPattern's return value
    replacementPatterns, \* translateSql's rule sequence
    pair,                \* translateSql's iterator (1-based index of the next rule)
    replacePattern,      \* searchAndReplace's template argument
    result,              \* translateSql's / searchAndReplace's local
    cursor,              \* search's token index (0-based)
    matchCount,          \* search's index into parsedPattern (0-based)
    varStart,            \* search's start offset of the running capture
    nestStack,           \* search's nesting stack (top is the last element)
    matchedPattern,      \* search's result under construction / returned
    prev,                \* the subject and match of the last replace step
    str                  \* translateSql's argument

vars == <<pc, sql, tokens, pattern, parsedPattern, replacementPatterns, pair,
          replacePattern, result, cursor, matchCount, varStart, nestStack,
          matchedPattern, prev, str>>

----------------------------------------------------------------------------
(* Characters *)

LowerCase == <<"a","b","c","d","e","f","g","h","i","j","k","l","m",
               "n","o","p","q","r","s","t","u","v","w","x","y","z">>

UpperCase == <<"A","B","C","D","E","F","G","H","I","J","K","L","M",
               "N","O","P","Q","R","S","T","U","V","W","X","Y","Z">>

Digits == <<"0","1","2","3","4","5","6","7","8","9">>

\* the characters of the model in ASCII order
Ascii == <<"\n", " ", "\"", "'", "(", ")", "*", "+", ",", "-", "/">>
         \o Digits \o <<";", "=", "@">> \o UpperCase \o <<"_">> \o LowerCase

Range(s) == {s[i] : i \in DOMAIN s}

Code(ch) == CHOOSE i \in DOMAIN Ascii : Ascii[i] = ch

IsAlnum(ch) == ch \in Range(LowerCase) \cup Range(UpperCase) \cup Range(Digits)

IsSpace(ch) == ch \in {" ", "\n"}

ToLowerChar(ch) ==
    IF ch \in Range(UpperCase)
    THEN LowerCase[CHOOSE i \in DOMAIN UpperCase : UpperCase[i] = ch]
    ELSE ch

toLowerCase(s) == [i \in DOMAIN s |-> ToLowerChar(s[i])]

\* std::string::at and std::string::substr on 0-based offsets
At(s, i) == s[i + 1]

Substr(s, pos, n) == SubSeq(s, pos + 1, pos + n)

\* std::string::operator< (lexicographic on character codes)
RECURSIVE StrLess(_, _)
StrLess(s, t) ==
    IF t = <<>> THEN FALSE
    ELSE IF s = <<>> THEN TRUE
    ELSE IF s[1] # t[1] THEN Code(s[1]) < Code(t[1])
    ELSE StrLess(Tail(s), Tail(t))

----------------------------------------------------------------------------
(* tokenize *)

IsTokenBoundaryAtSign(ch) == ~IsAlnum(ch) /\ ch # "_"

IsTokenBoundary(ch) == ~IsAlnum(ch) /\ ch # "_" /\ ch # "@"

MkTokenOffByOne(s, start, end) ==
    [start |-> start, end |-> end + 1, text |-> Substr(s, start, end - start)]

MkToken(s, start, end) ==
    [start |-> start, end |-> end, text |-> Substr(s, start, end - start)]

\* the pending run of word characters [start, cursor), if any, becomes a token
FlushWord(s, start, csr, toks) ==
    IF csr > start THEN Append(toks, MkToken(s, start, csr)) ELSE toks

\* sql.at(cursor + 1) is evaluated with cursor + 1 = sql.length(): out_of_range
PeekThrows(s, csr, ch) ==
    /\ ch \in {"-", "/"}
    /\ csr < Len(s)
    /\ csr + 1 >= Len(s)

StartsLineComment(s, csr, ch) ==
    ch = "-" /\ csr < Len(s) /\ At(s, csr + 1) = "-"

StartsBlockComment(s, csr, ch) ==
    ch = "/" /\ csr < Len(s) /\ At(s, csr + 1) = "*"

BlockCommentEnds(s, csr, ch) ==
    ch = "/" /\ csr > 0 /\ At(s, csr - 1) = "*"

\* the token of the boundary character itself
SymbolToken(s, csr, ch, toks) ==
    IF ~IsSpace(ch) THEN Append(toks, MkToken(s, csr, csr + 1)) ELSE toks

\* the for loop of tokenize; l is the loop's state
RECURSIVE TokenizeLoop(_, _)
TokenizeLoop(s, l) ==
    IF ~(l.cursor < Len(s)) THEN l
    ELSE
      LET ch == At(s, l.cursor)
          next == l.cursor + 1
      IN
      IF l.commentType1 THEN
          IF ch = "\n"
          THEN TokenizeLoop(s, [l EXCEPT !.commentType1 = FALSE, !.start = next,
                                         !.cursor = next])
          ELSE TokenizeLoop(s, [l EXCEPT !.cursor = next])
      ELSE IF l.commentType2 THEN
          IF BlockCommentEnds(s, l.cursor, ch)
          THEN TokenizeLoop(s, [l EXCEPT !.commentType2 = FALSE, !.start = next,
                                         !.cursor = next])
          ELSE TokenizeLoop(s, [l EXCEPT !.cursor = next])
      ELSE IF IsTokenBoundary(ch) THEN
          LET flushed == FlushWord(s, l.start, l.cursor, l.tokens) IN
          IF PeekThrows(s, l.cursor, ch)
          THEN [l EXCEPT !.tokens = flushed, !.fault = TRUE]
          ELSE IF StartsLineComment(s, l.cursor, ch)
          THEN TokenizeLoop(s, [l EXCEPT !.tokens = flushed, !.commentType1 = TRUE,
                                         !.start = next, !.cursor = next])
          ELSE IF StartsBlockComment(s, l.cursor, ch)
          THEN TokenizeLoop(s, [l EXCEPT !.tokens = flushed, !.commentType2 = TRUE,
                                         !.start = next, !.cursor = next])
          ELSE TokenizeLoop(s, [l EXCEPT !.tokens = SymbolToken(s, l.cursor, ch, flushed),
                                         !.start = next, !.cursor = next])
      ELSE TokenizeLoop(s, [l EXCEPT !.cursor = next])

\* tokenize(sql): fault = TRUE when std::out_of_range leaves the function,
\* otherwise tokens is the returned vector
tokenize(s) ==
    LET l == TokenizeLoop(s, [cursor |-> 0, start |-> 0, commentType1 |-> FALSE,
                              commentType2 |-> FALSE, tokens |-> <<>>,
                              fault |-> FALSE])
    IN IF l.fault
       THEN [fault |-> TRUE, tokens |-> <<>>]
       ELSE [fault |-> FALSE, tokens |-> FlushWord(s, l.start, l.cursor, l.tokens)]

----------------------------------------------------------------------------
(* parseSearchPattern *)

IsVariableTextLoneAt(text) == Len(text) >= 1 /\ text[1] = "@"

IsVariableText(text) == Len(text) > 1 /\ text[1] = "@"

MkBlock(token) == [text |-> token.text, isVariable |-> IsVariableText(token.text)]

Blocks(toks) == [i \in DOMAIN toks |-> MkBlock(toks[i])]

StartsOrEndsWithVariable(blocks) ==
    blocks[1].isVariable \/ blocks[Len(blocks)].isVariable

\* what reading blocks[0] of an empty vector can lead to
UndefinedOutcomes == {"invalid_argument", "parsed", "segfault"}

----------------------------------------------------------------------------
(* search *)

Npos == -1

LowercaseSqlForgotten(s) == s

\* the string search tokenizes
LowercaseSql(s) == toLowerCase(s)

Unset == -2

Top(stack) == stack[Len(stack)]

Pop(stack) == SubSeq(stack, 1, Len(stack) - 1)

IsQuote(text) == text = <<"\"">> \/ text = <<"'">>

\* the block at 0-based index i
BlockAt(P, i) == P[i + 1]

TerminatesIgnoringNesting(P, mc, stack, token) ==
    token.text = BlockAt(P, mc + 1).text

Terminates(P, mc, stack, token) ==
    Len(stack) = 0 /\ token.text = BlockAt(P, mc + 1).text

NestTrackParensInQuotes(stack, text) ==
    IF text = <<"(">> THEN Append(stack, text)
    ELSE IF Len(stack) # 0 /\ IsQuote(Top(stack))
    THEN IF text = Top(stack) THEN Pop(stack) ELSE stack
    ELSE IF IsQuote(text) THEN Append(stack, text)
    ELSE IF Len(stack) # 0 /\ text = <<")">> /\ Top(stack) = <<"(">> THEN Pop(stack)
    ELSE stack

NestTrack(stack, text) ==
    IF Len(stack) # 0 /\ IsQuote(Top(stack))
    THEN IF text = Top(stack) THEN Pop(stack) ELSE stack
    ELSE IF IsQuote(text) THEN Append(stack, text)
    ELSE IF text = <<"(">> THEN Append(stack, text)
    ELSE IF Len(stack) # 0 /\ text = <<")">> /\ Top(stack) = <<"(">> THEN Pop(stack)
    ELSE stack

\* variableToValue[key] = value
Bind(m, key, value) ==
    [k \in DOMAIN m \cup {key} |-> IF k = key THEN value ELSE m[k]]

CaptureLowerCased(s, from, to) == toLowerCase(Substr(s, from, to - from))

\* the value bound to a variable: the characters of the subject as given
Capture(s, from, to) == Substr(s, from, to - from)

\* after matchCount has advanced: return when the pattern is used up,
\* otherwise start a capture when the new block is a variable
Advance(P, l, mc, token) ==
    IF mc = Len(P)
    THEN [l EXCEPT !.matchCount = mc, !.matchedPattern.end = token.end,
                   !.returned = TRUE]
    ELSE IF BlockAt(P, mc).isVariable
    THEN [l EXCEPT !.matchCount = mc, !.varStart = token.end]
    ELSE [l EXCEPT !.matchCount = mc]

RecordStartAlways(l, mc, token) == [l EXCEPT !.matchedPattern.start = token.start]

\* the offset of the token that matches block 0
RecordStart(l, mc, token) ==
    IF mc = 0 THEN [l EXCEPT !.matchedPattern.start = token.start] ELSE l

LiteralMismatch(P, l, token) == [l EXCEPT !.matchCount = 0]

StepKind(P, l, token) ==
    IF BlockAt(P, l.matchCount).isVariable
    THEN IF Terminates(P, l.matchCount, l.nestStack, token)
         THEN "terminate" ELSE "nest"
    ELSE IF token.text = BlockAt(P, l.matchCount).text
         THEN "match" ELSE "mismatch"

\* the body of search's for loop on one token; l is the state of the locals
SearchStep(s, P, l, token) ==
    LET kind == StepKind(P, l, token)
        mc == l.matchCount
    IN
    IF kind = "terminate" THEN
        Advance(P,
                [l EXCEPT !.matchedPattern.variableToValue =
                              Bind(@, BlockAt(P, mc).text,
                                   Capture(s, l.varStart, token.start))],
                mc + 2, token)
    ELSE IF kind = "nest" THEN
        [l EXCEPT !.nestStack = NestTrack(@, token.text)]
    ELSE IF kind = "match" THEN
        Advance(P, RecordStart(l, mc, token), mc + 1, token)
    ELSE LiteralMismatch(P, l, token)

\* a default-constructed MatchedPattern: no offset set, no binding
NoMatch == [start |-> Unset, end |-> Unset, variableToValue |-> <<>>]

SearchLocals ==
    [matchCount |-> 0, varStart |-> 0, nestStack |-> <<>>,
     matchedPattern |-> NoMatch, returned |-> FALSE]

RECURSIVE SearchLoop(_, _, _, _, _)
SearchLoop(s, P, toks, csr, l) ==
    IF l.returned THEN l.matchedPattern
    ELSE IF ~(csr < Len(toks)) THEN [l.matchedPattern EXCEPT !.start = Npos]
    ELSE SearchLoop(s, P, toks, csr + 1, SearchStep(s, P, l, toks[csr + 1]))

\* search(sql, parsedPattern) as a function, for subjects that tokenize
search(s, P) == SearchLoop(s, P, tokenize(LowercaseSql(s)).tokens, 0, SearchLocals)

----------------------------------------------------------------------------
(* searchAndReplace *)

\* the least offset >= from where search occurs in s, or Npos
Find(s, searchStr, from) ==
    LET hits == {i \in from .. (Len(s) - Len(searchStr)) :
                     Substr(s, i, Len(searchStr)) = searchStr}
    IN IF hits = {} THEN Npos ELSE CHOOSE i \in hits : \A j \in hits : i <= j

\* replaceAll(source, search, replace): every occurrence, left to right, the
\* scan resuming after the inserted text
RECURSIVE ReplaceFrom(_, _, _, _)
ReplaceFrom(s, searchStr, replace, from) ==
    LET at == Find(s, searchStr, from) IN
    IF at = Npos THEN s
    ELSE ReplaceFrom(Substr(s, 0, at) \o replace
                         \o Substr(s, at + Len(searchStr), Len(s) - at - Len(searchStr)),
                     searchStr, replace, at + Len(replace))

replaceAll(source, searchStr, replace) == ReplaceFrom(source, searchStr, replace, 0)

\* the keys of a std::map in iteration order
RECURSIVE SortedKeys(_)
SortedKeys(keys) ==
    IF keys = {} THEN <<>>
    ELSE LET least == CHOOSE k \in keys : \A o \in keys \ {k} : StrLess(k, o)
         IN <<least>> \o SortedKeys(keys \ {least})

\* replaceAll applied for the keys in the given order
RECURSIVE SubstituteInOrder(_, _, _)
SubstituteInOrder(template, order, m) ==
    IF order = <<>> THEN template
    ELSE SubstituteInOrder(replaceAll(template, order[1], m[order[1]]), Tail(order), m)

Substitute(template, m) == SubstituteInOrder(template, SortedKeys(DOMAIN m), m)

SpliceKeepsMatchEnd(s, match, replacement) ==
    Substr(s, 0, match.start) \o replacement
        \o Substr(s, match.end - 1, Len(s) - match.end + 1)

Splice(s, match, replacement) ==
    Substr(s, 0, match.start) \o replacement
        \o Substr(s, match.end, Len(s) - match.end)

\* parseSearchPattern as a function, for the patterns it accepts
Compile(patternText) == Blocks(tokenize(toLowerCase(patternText)).tokens)

\* searchAndReplace as a function, for the calls that return
RECURSIVE searchAndReplace(_, _, _)
searchAndReplace(s, P, template) ==
    LET m == search(s, P) IN
    IF m.start # Npos
    THEN searchAndReplace(Splice(s, m, Substitute(template, m.variableToValue)),
                          P, template)
    ELSE s

\* translateSql as a function, for the calls that return
RECURSIVE translateSql(_, _)
translateSql(s, rules) ==
    IF rules = <<>> THEN s
    ELSE translateSql(searchAndReplace(s, Compile(rules[1][1]), rules[1][2]),
                      Tail(rules))

----------------------------------------------------------------------------
(* Bounds and input sets *)

MaxTokLen == 5

TokChars == {"a", "@", "-", "/", "*", "\n", " "}

RECURSIVE StringsUpTo(_, _)
StringsUpTo(chars, n) ==
    IF n = 0 THEN {<<>>}
    ELSE LET shorter == StringsUpTo(chars, n - 1)
         IN shorter \cup {Append(s, c) : s \in {t \in shorter : Len(t) = n - 1},
                                          c \in chars}

Idle == /\ tokens = <<>>
        /\ pattern = <<>>
        /\ parsedPattern = <<>>
        /\ replacementPatterns = <<>>
        /\ pair = 1
        /\ replacePattern = <<>>
        /\ result = <<>>
        /\ cursor = 0
        /\ matchCount = 0
        /\ varStart = 0
        /\ nestStack = <<>>
        /\ matchedPattern = NoMatch
        /\ prev = <<>>
        /\ str = <<>>

----------------------------------------------------------------------------
(* SpecTok: tokenize applied to every string over TokChars up to MaxTokLen *)

\* a block comment whose opener is directly followed by "/"
SlashAfterOpener == <<"/", "*", "/", " ", "x", " ", "*", "/", " ", "y">>

TokExamples == {SlashAfterOpener}

InitTok ==
    /\ pc = "tokenize"
    /\ sql \in StringsUpTo(TokChars, MaxTokLen) \cup TokExamples
    /\ Idle

TokenizeReturn ==
    /\ pc = "tokenize"
    /\ ~tokenize(sql).fault
    /\ tokens' = tokenize(sql).tokens
    /\ pc' = "tokenized"
    /\ UNCHANGED <<str, sql, pattern, parsedPattern, replacementPatterns, pair,
                   replacePattern, result, cursor, matchCount, varStart,
                   nestStack, matchedPattern, prev>>

TokenizeThrow ==
    /\ pc = "tokenize"
    /\ tokenize(sql).fault
    /\ pc' = "out_of_range"
    /\ UNCHANGED <<str, sql, tokens, pattern, parsedPattern, replacementPatterns, pair,
                   replacePattern, result, cursor, matchCount, varStart,
                   nestStack, matchedPattern, prev>>

NextTok == TokenizeReturn \/ TokenizeThrow

SpecTok == InitTok /\ [][NextTok]_vars

----------------------------------------------------------------------------
(* SpecParse: parseSearchPattern applied to every string over PatChars up to
   MaxPatLen *)

MaxPatLen == 4

PatChars == {"a", "B", "@", " ", "-", "\n", "("}

InitParse ==
    /\ pc = "parse"
    /\ pattern \in StringsUpTo(PatChars, MaxPatLen)
    /\ sql = <<>>
    /\ tokens = <<>>
    /\ parsedPattern = <<>>
    /\ replacementPatterns = <<>>
    /\ pair = 1
    /\ replacePattern = <<>>
    /\ result = <<>>
    /\ cursor = 0
    /\ matchCount = 0
    /\ varStart = 0
    /\ nestStack = <<>>
    /\ matchedPattern = NoMatch
    /\ prev = <<>>
    /\ str = <<>>

PatternTokens == tokenize(toLowerCase(pattern))

\* tokenize throws inside parseSearchPattern
ParseTokenizeThrow ==
    /\ pc = "parse"
    /\ PatternTokens.fault
    /\ pc' = "out_of_range"
    /\ UNCHANGED <<str, sql, tokens, pattern, parsedPattern, replacementPatterns, pair,
                   replacePattern, result, cursor, matchCount, varStart,
                   nestStack, matchedPattern, prev>>

\* no token: blocks[0] reads past the end of an empty vector
ParseUndefined ==
    /\ pc = "parse"
    /\ ~PatternTokens.fault
    /\ PatternTokens.tokens = <<>>
    /\ \E outcome \in UndefinedOutcomes : pc' = outcome
    /\ parsedPattern' = <<>>
    /\ UNCHANGED <<str, sql, tokens, pattern, replacementPatterns, pair,
                   replacePattern, result, cursor, matchCount, varStart,
                   nestStack, matchedPattern, prev>>

ParseThrow ==
    /\ pc = "parse"
    /\ ~PatternTokens.fault
    /\ PatternTokens.tokens # <<>>
    /\ StartsOrEndsWithVariable(Blocks(PatternTokens.tokens))
    /\ pc' = "invalid_argument"
    /\ UNCHANGED <<str, sql, tokens, pattern, parsedPattern, replacementPatterns, pair,
                   replacePattern, result, cursor, matchCount, varStart,
                   nestStack, matchedPattern, prev>>

ParseReturn ==
    /\ pc = "parse"
    /\ ~PatternTokens.fault
    /\ PatternTokens.tokens # <<>>
    /\ ~StartsOrEndsWithVariable(Blocks(PatternTokens.tokens))
    /\ parsedPattern' = Blocks(PatternTokens.tokens)
    /\ pc' = "parsed"
    /\ UNCHANGED <<str, sql, tokens, pattern, replacementPatterns, pair,
                   replacePattern, result, cursor, matchCount, varStart,
                   nestStack, matchedPattern, prev>>

NextParse == ParseTokenizeThrow \/ ParseUndefined \/ ParseThrow \/ ParseReturn

SpecParse == InitParse /\ [][NextParse]_vars

----------------------------------------------------------------------------
(* Spec: translateSql on a subject and a rule sequence.  Every pattern of
   the inputs has at least one token. *)

MaxSubjLen == 4

SubjChars == {"a", "A", " ", "(", ")"}

\* the empty rule sequence
NoRules == <<>>

\* two rules; the template of the second matches the pattern of the first
LaterFeedsEarlier ==
    << <<<<"(", " ", ")">>, <<"a">>>>,
       <<<<"'", " ", "'">>, <<"(", " ", ")">>>> >>

\* one rule whose template matches its own pattern
SelfMatching == << <<<<"a">>, <<"a">>>> >>

GenRules ==
    {<< <<<<"(", " ", ")">>, <<"a">>>> >>,
     << <<<<"a", " ", "a">>, <<"a">>>> >>,
     << <<<<"a", " ", "@", "x", " ", ")">>, <<"@", "x">>>> >>,
     << <<<<"(", " ", "@", "x", " ", ")">>, <<"@", "x">>>> >>,
     << <<<<"'", " ", "@", "x", " ", "a">>, <<"(", "@", "x">>>> >>}

SelectUnclosed ==
    [str |-> <<"S", "E", "L", "E", "C", "T", " ", "a", ",", " ", "b", " ", "F", "R", "O", "M", " ", "o", "r", "d", "e", "r", "s">>,
     rules |-> << <<<<"s", "e", "l", "e", "c", "t", " ", "@", "c", "o", "l", "s", " ", "f", "r", "o", "m", " ", "@", "t", "b", "l">>,
                   <<"@", "t", "b", "l">>>> >>]

SelectClosed ==
    [str |-> <<"S", "E", "L", "E", "C", "T", " ", "a", ",", " ", "b", " ", "F", "R", "O", "M", " ", "o", "r", "d", "e", "r", "s", ";">>,
     rules |-> << <<<<"s", "e", "l", "e", "c", "t", " ", "@", "c", "o", "l", "s", " ", "f", "r", "o", "m", " ", "@", "t", "b", "l", " ", ";">>,
                   <<"@", "t", "b", "l", "(", "@", "c", "o", "l", "s", ")">>>> >>]

NestedCall ==
    [str |-> <<"f", "(", "(", "1", "+", "2", ")", ")", " ", "e", "n", "d">>,
     rules |-> << <<<<"f", "(", "@", "x", ")", " ", "e", "n", "d">>,
                   <<"@", "x">>>> >>]

QuotedParen ==
    [str |-> <<"a", " ", "'", ")", "'", " ", ")">>,
     rules |-> << <<<<"a", " ", "@", "x", " ", ")">>,
                   <<"@", "x">>>> >>]

RestartMiss ==
    [str |-> <<"a", " ", "a", " ", "b">>,
     rules |-> << <<<<"a", " ", "b">>,
                   <<"b">>>> >>]

PrefixNames ==
    [str |-> <<"x", " ", "(", ")", " ", "y", " ", "2", " ", "z">>,
     rules |-> << <<<<"x", " ", "@", "a", " ", "y", " ", "@", "a", "b", " ", "z">>,
                   <<"@", "a", "b">>>> >>]

ValueNamesVariable ==
    [str |-> <<"x", " ", "@", "b", " ", "y", " ", "2", " ", "z">>,
     rules |-> << <<<<"x", " ", "@", "a", " ", "y", " ", "@", "b", " ", "z">>,
                   <<"@", "a">>>> >>]

SubjectEndsInDash ==
    [str |-> <<"a", " ", "-">>,
     rules |-> << <<<<"a", " ", "a">>,
                   <<"a">>>> >>]

PatternEndsInDash ==
    [str |-> <<"a", " ", "a">>,
     rules |-> << <<<<"a", " ", "-">>,
                   <<"a">>>> >>]

AdjacentVariables ==
    [str |-> <<"a", " ", "1", " ", "@", "y", " ", "b">>,
     rules |-> << <<<<"a", " ", "@", "x", " ", "@", "y", " ", "b">>,
                   <<"@", "x">>>> >>]

JoinedVariables ==
    [str |-> <<"a", " ", "1", " ", "b">>,
     rules |-> << <<<<"a", " ", "@", "x", "@", "y", " ", "b">>,
                   <<"@", "x", "@", "y">>>> >>]

CommentJoin ==
    [str |-> <<"-", "a">>,
     rules |-> << <<<<"a">>,
                   <<"-", "a", "\n">>>> >>]

Examples ==
    {AdjacentVariables, JoinedVariables, CommentJoin,
     SelectUnclosed, SelectClosed, NestedCall, QuotedParen, RestartMiss, PrefixNames, ValueNamesVariable, SubjectEndsInDash, PatternEndsInDash}

\* the subjects of the rule sequences with no rule or a self-matching rule
WordChars == {"a", "A", " ", "("}

\* the subjects of the two-rule sequence
NestChars == {"(", ")", "'", " "}

\* the subjects with quotes, and the rules that capture
QuoteChars == {"a", "'", "(", ")"}

CaptureRules ==
    {<< <<<<"a", " ", "@", "x", " ", ")">>, <<"@", "x">>>> >>,
     << <<<<"'", " ", "@", "x", " ", "a">>, <<"(", "@", "x">>>> >>}

Inputs ==
    {[str |-> s, rules |-> r] : s \in StringsUpTo(SubjChars, MaxSubjLen),
                                r \in GenRules}
    \cup {[str |-> s, rules |-> r] : s \in StringsUpTo(WordChars, MaxSubjLen),
                                     r \in {NoRules, SelfMatching}}
    \cup {[str |-> s, rules |-> r] : s \in StringsUpTo(QuoteChars, MaxSubjLen),
                                     r \in CaptureRules}
    \cup {[str |-> s, rules |-> LaterFeedsEarlier] :
              s \in StringsUpTo(NestChars, MaxSubjLen)}
    \cup Examples

Init ==
    /\ pc = "translate"
    /\ \E in \in Inputs :
          /\ str = in.str
          /\ result = in.str
          /\ replacementPatterns = in.rules
    /\ pair = 1
    /\ sql = <<>>
    /\ tokens = <<>>
    /\ pattern = <<>>
    /\ parsedPattern = <<>>
    /\ replacePattern = <<>>
    /\ cursor = 0
    /\ matchCount = 0
    /\ varStart = 0
    /\ nestStack = <<>>
    /\ matchedPattern = NoMatch
    /\ prev = <<>>

TranslateNextRuleFromEnd ==
    /\ pc = "translate"
    /\ pair <= Len(replacementPatterns)
    /\ pattern' = replacementPatterns[Len(replacementPatterns) - pair + 1][1]
    /\ replacePattern' = replacementPatterns[Len(replacementPatterns) - pair + 1][2]
    /\ pc' = "parse"
    /\ UNCHANGED <<str, sql, tokens, parsedPattern, replacementPatterns, pair, result,
                   cursor, matchCount, varStart, nestStack, matchedPattern, prev>>

\* the next rule of the loop of translateSql
TranslateNextRule ==
    /\ pc = "translate"
    /\ pair <= Len(replacementPatterns)
    /\ pattern' = replacementPatterns[pair][1]
    /\ replacePattern' = replacementPatterns[pair][2]
    /\ pc' = "parse"
    /\ UNCHANGED <<str, sql, tokens, parsedPattern, replacementPatterns, pair, result,
                   cursor, matchCount, varStart, nestStack, matchedPattern, prev>>

TranslateReturnAfterFirstRule ==
    /\ pc = "translate"
    /\ pair > 1
    /\ pc' = "done"
    /\ UNCHANGED <<str, sql, tokens, pattern, parsedPattern, replacementPatterns, pair,
                   replacePattern, result, cursor, matchCount, varStart,
                   nestStack, matchedPattern, prev>>

\* the loop of translateSql is over
TranslateReturn ==
    /\ pc = "translate"
    /\ pair > Len(replacementPatterns)
    /\ pc' = "done"
    /\ UNCHANGED <<str, sql, tokens, pattern, parsedPattern, replacementPatterns, pair,
                   replacePattern, result, cursor, matchCount, varStart,
                   nestStack, matchedPattern, prev>>

\* search is entered, from searchAndReplace's first call or from its loop
SearchCall ==
    /\ pc \in {"parsed", "replaced"}
    /\ ~tokenize(LowercaseSql(result)).fault
    /\ sql' = result
    /\ tokens' = tokenize(LowercaseSql(result)).tokens
    /\ cursor' = 0
    /\ matchCount' = SearchLocals.matchCount
    /\ varStart' = SearchLocals.varStart
    /\ nestStack' = SearchLocals.nestStack
    /\ matchedPattern' = SearchLocals.matchedPattern
    /\ pc' = "search"
    /\ UNCHANGED <<str, pattern, parsedPattern, replacementPatterns, pair,
                   replacePattern, result, prev>>

SearchTokenizeThrow ==
    /\ pc \in {"parsed", "replaced"}
    /\ tokenize(LowercaseSql(result)).fault
    /\ sql' = result
    /\ pc' = "out_of_range"
    /\ UNCHANGED <<str, tokens, pattern, parsedPattern, replacementPatterns, pair,
                   replacePattern, result, cursor, matchCount, varStart,
                   nestStack, matchedPattern, prev>>

Locals ==
    [matchCount |-> matchCount, varStart |-> varStart, nestStack |-> nestStack,
     matchedPattern |-> matchedPattern, returned |-> FALSE]

\* the token under search's cursor is handled the given way
IterationIs(kind) ==
    /\ pc = "search"
    /\ cursor < Len(tokens)
    /\ StepKind(parsedPattern, Locals, tokens[cursor + 1]) = kind

\* one iteration of search's for loop; search returns from inside the loop
\* once the pattern is used up
Iterate ==
    LET l == SearchStep(sql, parsedPattern, Locals, tokens[cursor + 1]) IN
        /\ matchCount' = l.matchCount
        /\ varStart' = l.varStart
        /\ nestStack' = l.nestStack
        /\ matchedPattern' = l.matchedPattern
        /\ pc' = IF l.returned THEN "searched" ELSE "search"
        /\ cursor' = IF l.returned THEN cursor ELSE cursor + 1

SearchVariableTerminate ==
    /\ IterationIs("terminate")
    /\ Iterate
    /\ UNCHANGED <<str, sql, tokens, pattern, parsedPattern, replacementPatterns, pair,
                   replacePattern, result, prev>>

SearchVariableNest ==
    /\ IterationIs("nest")
    /\ Iterate
    /\ UNCHANGED <<str, sql, tokens, pattern, parsedPattern, replacementPatterns, pair,
                   replacePattern, result, prev>>

SearchLiteralMatch ==
    /\ IterationIs("match")
    /\ Iterate
    /\ UNCHANGED <<str, sql, tokens, pattern, parsedPattern, replacementPatterns, pair,
                   replacePattern, result, prev>>

SearchLiteralMismatch ==
    /\ IterationIs("mismatch")
    /\ Iterate
    /\ UNCHANGED <<str, sql, tokens, pattern, parsedPattern, replacementPatterns, pair,
                   replacePattern, result, prev>>

SearchExhausted ==
    /\ pc = "search"
    /\ ~(cursor < Len(tokens))
    /\ matchedPattern' = [matchedPattern EXCEPT !.start = Npos]
    /\ pc' = "searched"
    /\ UNCHANGED <<str, sql, tokens, pattern, parsedPattern, replacementPatterns, pair,
                   replacePattern, result, cursor, matchCount, varStart,
                   nestStack, prev>>

ReplaceWhileNothingReplaced == matchedPattern.start # Npos /\ prev = <<>>

ReplaceWhile == matchedPattern.start # Npos

\* the body of searchAndReplace's while loop, up to the splice
ReplaceMatch ==
    /\ pc = "searched"
    /\ ReplaceWhile
    /\ result' = Splice(result, matchedPattern,
                        Substitute(replacePattern, matchedPattern.variableToValue))
    /\ prev' = [subject |-> result, match |-> matchedPattern]
    /\ pc' = "replaced"
    /\ UNCHANGED <<str, sql, tokens, pattern, parsedPattern, replacementPatterns, pair,
                   replacePattern, cursor, matchCount, varStart, nestStack,
                   matchedPattern>>

\* searchAndReplace returns result to translateSql, which moves to the next rule
SearchAndReplaceReturn ==
    /\ pc = "searched"
    /\ ~ReplaceWhile
    /\ pair' = pair + 1
    /\ pc' = "translate"
    /\ UNCHANGED <<str, sql, tokens, pattern, parsedPattern, replacementPatterns,
                   replacePattern, result, cursor, matchCount, varStart,
                   nestStack, matchedPattern, prev>>

Next ==
    \/ TranslateNextRule
    \/ TranslateReturn
    \/ ParseTokenizeThrow
    \/ ParseThrow
    \/ ParseReturn
    \/ SearchCall
    \/ SearchTokenizeThrow
    \/ SearchVariableTerminate
    \/ SearchVariableNest
    \/ SearchLiteralMatch
    \/ SearchLiteralMismatch
    \/ SearchExhausted
    \/ ReplaceMatch
    \/ SearchAndReplaceReturn

Spec == Init /\ [][Next]_vars

----------------------------------------------------------------------------
(* Properties of tokenize (SpecTok) *)

\* The offsets of the input that lie in a comment as SQL defines it: from
\* "--" up to and including the next newline or the end of the input, and
\* from "/*" up to and including the next "*/" after it or the end of the input
RECURSIVE CommentScan(_, _, _)
CommentScan(s, i, mode) ==
    IF i >= Len(s) THEN {}
    ELSE IF mode = "code" THEN
        IF i + 1 < Len(s) /\ At(s, i) = "-" /\ At(s, i + 1) = "-"
        THEN {i, i + 1} \cup CommentScan(s, i + 2, "line")
        ELSE IF i + 1 < Len(s) /\ At(s, i) = "/" /\ At(s, i + 1) = "*"
        THEN {i, i + 1} \cup CommentScan(s, i + 2, "block")
        ELSE CommentScan(s, i + 1, "code")
    ELSE IF mode = "line" THEN
        {i} \cup CommentScan(s, i + 1, IF At(s, i) = "\n" THEN "code" ELSE "line")
    ELSE
        IF i + 1 < Len(s) /\ At(s, i) = "*" /\ At(s, i + 1) = "/"
        THEN {i, i + 1} \cup CommentScan(s, i + 2, "code")
        ELSE {i} \cup CommentScan(s, i + 1, "block")

CommentChars(s) == CommentScan(s, 0, "code")

TokenOffsets(t) == t.start .. (t.end - 1)

\* C6: tokenize discards comments completely, unterminated ones included: no
\* offset of a "--" or "/*" comment lies inside an emitted token.
CommentsDiscarded ==
    pc = "tokenized" =>
        \A i \in DOMAIN tokens : TokenOffsets(tokens[i]) \cap CommentChars(sql) = {}

\* C7: tokenize is total: it returns for every input, and every character
\* outside comments that is neither a word character nor white space is a
\* one-character token of the result.
TokenizeTotal ==
    /\ pc # "out_of_range"
    /\ pc = "tokenized" =>
          \A i \in 0 .. (Len(sql) - 1) :
              (/\ i \notin CommentChars(sql)
               /\ IsTokenBoundary(At(sql, i))
               /\ ~IsSpace(At(sql, i)))
              => \E k \in DOMAIN tokens : tokens[k] = MkToken(sql, i, i + 1)

\* C8: every emitted token has 0 <= start < end <= length(input) and
\* text = input[start, end), and the tokens are in increasing, non-overlapping
\* order.
TokenOffsetsIndexInput ==
    pc = "tokenized" =>
        /\ \A i \in DOMAIN tokens :
              /\ 0 <= tokens[i].start
              /\ tokens[i].start < tokens[i].end
              /\ tokens[i].end <= Len(sql)
              /\ tokens[i].text = Substr(sql, tokens[i].start,
                                         tokens[i].end - tokens[i].start)
        /\ \A i \in DOMAIN tokens :
              i + 1 \in DOMAIN tokens => tokens[i].end <= tokens[i + 1].start

\* two tokens returned with a whole comment elided between them
TokensAroundComment ==
    /\ pc = "tokenized"
    /\ Len(tokens) >= 2
    /\ \E i \in CommentChars(sql) : tokens[1].end <= i /\ i < tokens[2].start
    /\ tokens[2].start - tokens[1].end >= 3

----------------------------------------------------------------------------
(* Properties of parseSearchPattern (SpecParse) *)

\* C4: a pattern that is empty or tokenizes to zero blocks ends in the
\* reported pattern error, and in nothing else.
EmptyPatternRejected ==
    (pc # "parse" /\ ~PatternTokens.fault /\ PatternTokens.tokens = <<>>)
        => pc = "invalid_argument"

\* a variable as the pattern language defines it: "@" and at least one more
\* character
NamesVariable(text) == Len(text) >= 2 /\ text[1] = "@"

\* C5: a pattern with at least one token is rejected exactly when its first
\* or last token names a variable; otherwise the result has one block per
\* token of the lower-cased pattern, in order, variable exactly when the
\* token names a variable.
RejectsIffEndsAreVariables ==
    LET toks == PatternTokens.tokens IN
    (pc # "parse" /\ ~PatternTokens.fault /\ Len(toks) >= 1) =>
        IF NamesVariable(toks[1].text) \/ NamesVariable(toks[Len(toks)].text)
        THEN pc = "invalid_argument"
        ELSE /\ pc = "parsed"
             /\ Len(parsedPattern) = Len(toks)
             /\ \A i \in DOMAIN toks :
                   /\ parsedPattern[i].text = toks[i].text
                   /\ parsedPattern[i].isVariable = NamesVariable(toks[i].text)

\* an accepted pattern with a variable whose name was lower-cased
ParsedLowerCasedVariable ==
    /\ pc = "parsed"
    /\ \E i \in DOMAIN parsedPattern : parsedPattern[i].isVariable
    /\ toLowerCase(pattern) # pattern

----------------------------------------------------------------------------
(* Properties of search and searchAndReplace (Spec) *)

Found == pc = "searched" /\ matchedPattern.start # Npos

AllLiteral(P) == \A i \in DOMAIN P : ~P[i].isVariable

\* the 1-based token indexes where the block texts of P start a contiguous run
Runs(toks, P) ==
    {i \in 1 .. (Len(toks) - Len(P) + 1) :
        \A k \in DOMAIN P : toks[i + k - 1].text = P[k].text}

Leftmost(S) == CHOOSE i \in S : \A j \in S : i <= j

IsRunAt(i) ==
    /\ matchedPattern.start = tokens[i].start
    /\ matchedPattern.end = tokens[i + Len(parsedPattern) - 1].end

\* C1 as stated: for an all-literal pattern, whenever the subject's tokens
\* contain the block texts as a contiguous run, search returns the leftmost
\* such run.
FindsLeftmostRun ==
    (pc = "searched" /\ AllLiteral(parsedPattern) /\ Runs(tokens, parsedPattern) # {})
        => /\ matchedPattern.start # Npos
           /\ IsRunAt(Leftmost(Runs(tokens, parsedPattern)))

\* C1 amended: for an all-literal pattern, a returned match is a contiguous
\* run of the block texts with the run's offsets, and the leftmost run is
\* returned whenever no token before it equals the first block's text.
FindsRunWithoutFalseStart ==
    (pc = "searched" /\ AllLiteral(parsedPattern)) =>
        LET runs == Runs(tokens, parsedPattern) IN
        /\ matchedPattern.start # Npos => \E i \in runs : IsRunAt(i)
        /\ (/\ runs # {}
            /\ \A j \in 1 .. (Leftmost(runs) - 1) :
                   tokens[j].text # parsedPattern[1].text)
           => /\ matchedPattern.start # Npos
              /\ IsRunAt(Leftmost(runs))

\* an all-literal pattern of several blocks found past the first token
FoundRunPastFirstToken ==
    /\ Found
    /\ AllLiteral(parsedPattern)
    /\ Len(parsedPattern) >= 2
    /\ matchedPattern.start > tokens[1].start

ConsumingVariable ==
    /\ pc = "search"
    /\ cursor < Len(tokens)
    /\ BlockAt(parsedPattern, matchCount).isVariable

AtTerminatorText ==
    /\ ConsumingVariable
    /\ tokens[cursor + 1].text = BlockAt(parsedPattern, matchCount + 1).text

\* C2: while a variable consumes tokens, a token with the next block's text
\* ends the capture if and only if the nesting stack is empty at that token
\* (binding the slice from the capture's start to that token); with a
\* non-empty stack the token is absorbed, and no other token ends a capture.
\* Pattern "f(@x) end" on "f((1+2)) end" binds @x to "(1+2)".
NestingTransparency ==
    /\ [][/\ AtTerminatorText =>
               IF nestStack = <<>>
               THEN /\ matchCount' = matchCount + 2
                    /\ matchedPattern'.variableToValue[BlockAt(parsedPattern, matchCount).text]
                         = Substr(sql, varStart, tokens[cursor + 1].start - varStart)
               ELSE /\ matchCount' = matchCount
                    /\ matchedPattern' = matchedPattern
                    /\ pc' = "search"
          /\ (ConsumingVariable /\ ~AtTerminatorText) =>
               (matchCount' = matchCount /\ matchedPattern' = matchedPattern)
         ]_vars
    /\ [](Found /\ sql = NestedCall.str /\ replacementPatterns = NestedCall.rules
            => matchedPattern.variableToValue =
                 (<<"@", "x">> :> <<"(", "1", "+", "2", ")">>))

\* a token with the terminator's text was absorbed into the running capture
AbsorbedTerminatorText ==
    /\ ConsumingVariable
    /\ cursor >= 1
    /\ tokens[cursor].start >= varStart
    /\ tokens[cursor].text = BlockAt(parsedPattern, matchCount + 1).text
    /\ nestStack = <<>>

FirstSearchOf(in) ==
    /\ replacementPatterns = in.rules
    /\ prev = <<>>
    /\ pc = "searched"
    /\ sql = in.str

\* C3 as stated: pattern "select @cols from @tbl" compiles and matches
\* "SELECT a, b FROM orders", binding @cols to "a, b " and @tbl to "orders".
SelectExampleBinds ==
    (replacementPatterns = SelectUnclosed.rules /\ pc \notin {"translate", "parse"})
        => /\ pc # "invalid_argument"
           /\ FirstSearchOf(SelectUnclosed) =>
                 /\ matchedPattern.start # Npos
                 /\ matchedPattern.variableToValue =
                      (<<"@", "c", "o", "l", "s">> :> <<"a", ",", " ", "b", " ">>
                       @@ <<"@", "t", "b", "l">> :> <<"o", "r", "d", "e", "r", "s">>)

\* C3 amended: pattern "select @cols from @tbl" is rejected with the pattern
\* error, since its last block is a variable; pattern
\* "select @cols from @tbl ;" matches "SELECT a, b FROM orders;" from 0 to
\* 24 and binds @cols to " a, b " and @tbl to " orders": literals match
\* case-insensitively and a capture runs from the end of the literal before
\* it, in the subject's own case.
SelectExampleClosedBinds ==
    /\ (replacementPatterns = SelectUnclosed.rules /\ pc \notin {"translate", "parse"})
          => pc = "invalid_argument"
    /\ replacementPatterns = SelectClosed.rules
          => pc \notin {"invalid_argument", "out_of_range"}
    /\ FirstSearchOf(SelectClosed) =>
          /\ matchedPattern.start = 0
          /\ matchedPattern.end = 24
          /\ matchedPattern.variableToValue =
               (<<"@", "c", "o", "l", "s">> :> <<" ", "a", ",", " ", "b", " ">>
                @@ <<"@", "t", "b", "l">> :> <<" ", "o", "r", "d", "e", "r", "s">>)

SelectExampleClosedSearched == FirstSearchOf(SelectClosed) /\ Found

\* C9: a replace step changes exactly the matched span (the text before
\* match.start and from match.end on is the old subject's, the substituted
\* template lies between), the next search starts at the first token of the
\* whole new subject, and when searchAndReplace has returned search finds no
\* match in the returned string.
ReplacesExactlyTheMatch ==
    /\ pc = "replaced" =>
          LET old == prev.subject
              m == prev.match
              mid == Substitute(replacePattern, m.variableToValue)
          IN /\ Len(result) = m.start + Len(mid) + (Len(old) - m.end)
             /\ \A i \in 1 .. m.start : result[i] = old[i]
             /\ \A i \in 1 .. Len(mid) : result[m.start + i] = mid[i]
             /\ \A i \in (m.end + 1) .. Len(old) :
                   result[i - m.end + m.start + Len(mid)] = old[i]
    /\ (pc = "search" /\ cursor = 0) =>
          /\ sql = result
          /\ tokens = tokenize(toLowerCase(result)).tokens
          /\ matchCount = 0
          /\ nestStack = <<>>
    /\ (pc = "translate" /\ pair > 1) =>
          search(result, parsedPattern).start = Npos

\* searchAndReplace has returned after replacing a match that had text on
\* both sides
ReturnedAfterInnerReplace ==
    /\ pc = "translate"
    /\ pair > 1
    /\ prev # <<>>
    /\ prev.match.start > 0
    /\ prev.match.end < Len(prev.subject)

\* the orders in which the keys can be taken
Orders(keys) ==
    {o \in [1 .. Cardinality(keys) -> keys] :
        \A i, j \in DOMAIN o : i # j => o[i] # o[j]}

\* the longest key that occurs in t at offset i, or <<>>
KeyAt(t, i, keys) ==
    LET here == {k \in keys : i + Len(k) <= Len(t) /\ Substr(t, i, Len(k)) = k}
    IN IF here = {} THEN <<>>
       ELSE CHOOSE k \in here : \A o \in here : Len(o) <= Len(k)

\* every occurrence of a key in t replaced by the key's own value
RECURSIVE EachByItsOwnValue(_, _, _)
EachByItsOwnValue(t, i, m) ==
    IF i >= Len(t) THEN <<>>
    ELSE LET k == KeyAt(t, i, DOMAIN m) IN
         IF k = <<>> THEN <<At(t, i)>> \o EachByItsOwnValue(t, i + 1, m)
         ELSE m[k] \o EachByItsOwnValue(t, i + Len(k), m)

\* C10: substituting the bound variables into the template gives the same
\* string in every order, the one where every occurrence of a variable name
\* in the template is replaced by that variable's own value.
SubstitutionOrderIndependent ==
    Found =>
        LET m == matchedPattern.variableToValue IN
        /\ \A o \in Orders(DOMAIN m) :
              SubstituteInOrder(replacePattern, o, m) = Substitute(replacePattern, m)
        /\ Substitute(replacePattern, m) = EachByItsOwnValue(replacePattern, 0, m)

----------------------------------------------------------------------------
(* Properties of translateSql (Spec) *)

\* no rule's template, taken by itself, matches the rule's own pattern
NoRuleSelfMatches(rules) ==
    \A i \in DOMAIN rules : search(rules[i][2], Compile(rules[i][1])).start = Npos

\* C11 as stated: for a rule set without a self-matching rule, translating
\* the output of translate again gives the same string, also with several
\* rules where a later rule's output matches an earlier rule's pattern.
TranslateIdempotent ==
    (pc = "done" /\ NoRuleSelfMatches(replacementPatterns))
        => translateSql(result, replacementPatterns) = result

NoEarlierRuleMatches(s, rules) ==
    \A i \in 1 .. (Len(rules) - 1) : search(s, Compile(rules[i][1])).start = Npos

\* C11 amended: for a rule set without a self-matching rule, translating the
\* output of translate again gives the same string provided no rule before
\* the last has a pattern that matches that output (always so for one rule).
IdempotentUnlessEarlierRuleMatches ==
    (/\ pc = "done"
     /\ NoRuleSelfMatches(replacementPatterns)
     /\ NoEarlierRuleMatches(result, replacementPatterns))
        => translateSql(result, replacementPatterns) = result

\* translate has rewritten the subject under two rules, and no rule before
\* the last matches the output
TranslatedUnderTwoRules ==
    /\ pc = "done"
    /\ Len(replacementPatterns) >= 2
    /\ result # str
    /\ NoRuleSelfMatches(replacementPatterns)
    /\ NoEarlierRuleMatches(result, replacementPatterns)

\* C12: the rules are applied in the given order, each to its fixpoint
\* before the next rule's pattern is compiled, on the output of the rule
\* before it; no rule is applied again after a later one; with no rule the
\* subject is returned unchanged.
RulesInOrderToFixpoint ==
    /\ [][pair' \in {pair, pair + 1}]_vars
    /\ [](pc = "parse" =>
            /\ pair <= Len(replacementPatterns)
            /\ pattern = replacementPatterns[pair][1]
            /\ replacePattern = replacementPatterns[pair][2]
            /\ result = translateSql(str, SubSeq(replacementPatterns, 1, pair - 1))
            /\ pair > 1 =>
                 search(result, Compile(replacementPatterns[pair - 1][1])).start = Npos)
    /\ [](pc = "done" =>
            /\ pair = Len(replacementPatterns) + 1
            /\ result = translateSql(str, replacementPatterns))
    /\ [](replacementPatterns = <<>> => result = str)

\* translate has returned after each of two rules rewrote the subject
BothRulesRewrote ==
    /\ pc = "done"
    /\ Len(replacementPatterns) = 2
    /\ translateSql(str, SubSeq(replacementPatterns, 1, 1)) # str
    /\ result # translateSql(str, SubSeq(replacementPatterns, 1, 1))

----------------------------------------------------------------------------
(* Letter case (Spec) *)

\* v is the slice [i, j) of s
IsSliceAt(v, s, i, j) == i <= j /\ j <= Len(s) /\ v = Substr(s, i, j - i)

\* C13: the letter case of the subject does not influence matching.  Two
\* subjects that differ only in letter case have the same lower-cased string;
\* when a search of sql has returned, its start and end offsets and the names
\* it binds are those of the search of the lower-cased sql, and each value
\* bound is a slice of sql as given, at the offsets where the search of the
\* lower-cased sql takes its value.
CaseBlindMatching ==
    pc = "searched" =>
        LET m == search(toLowerCase(sql), parsedPattern) IN
            /\ m.start = matchedPattern.start
            /\ m.end = matchedPattern.end
            /\ DOMAIN m.variableToValue = DOMAIN matchedPattern.variableToValue
            /\ \A k \in DOMAIN matchedPattern.variableToValue :
                  \E i \in 0 .. Len(sql), j \in 0 .. Len(sql) :
                      /\ IsSliceAt(matchedPattern.variableToValue[k], sql, i, j)
                      /\ IsSliceAt(m.variableToValue[k], toLowerCase(sql), i, j)

\* a match whose first literal and whose bound value both hold an upper-case
\* letter of the subject
MatchedUpperCase ==
    /\ Found
    /\ At(sql, matchedPattern.start) # ToLowerChar(At(sql, matchedPattern.start))
    /\ \E k \in DOMAIN matchedPattern.variableToValue :
          matchedPattern.variableToValue[k] # toLowerCase(matchedPattern.variableToValue[k])

----------------------------------------------------------------------------
(* The replace loop (Spec) *)

\* the text the last replace step put in place of the match
Substituted == Substitute(replacePattern, prev.match.variableToValue)

\* the substituted replacement, searched on its own, matches the pattern
SubstitutedMatches ==
    /\ ~tokenize(LowercaseSql(Substituted)).fault
    /\ search(Substituted, parsedPattern).start # Npos

\* C14 as stated: after a replace step whose substituted replacement matches
\* the search pattern, the next search of the loop finds a match.
ReplaceLoopNeverReturns ==
    (pc = "replaced" /\ SubstitutedMatches) =>
        /\ ~tokenize(LowercaseSql(result)).fault
        /\ search(result, parsedPattern).start # Npos

Shift(t, by) == [t EXCEPT !.start = @ + by, !.end = @ + by]

\* the tokens of result that start inside the replacement are the tokens of
\* the replacement on its own
ReplacementTokensKept ==
    LET toks == tokenize(LowercaseSql(result)).tokens
        own == tokenize(LowercaseSql(Substituted)).tokens
        from == prev.match.start
        inside == {i \in DOMAIN toks : /\ from <= toks[i].start
                                        /\ toks[i].start < from + Len(Substituted)}
    IN  /\ ~tokenize(LowercaseSql(result)).fault
        /\ Cardinality(inside) = Len(own)
        /\ \A i \in inside :
              \E k \in DOMAIN own :
                  /\ toks[i] = Shift(own[k], from)
                  /\ \A j \in inside : j < i <=> \E h \in 1 .. (k - 1) : toks[j] = Shift(own[h], from)

\* C14 amended: the loop has no cap: a match that search returns is always
\* replaced and searchAndReplace returns only when search finds nothing;
\* after a replace step whose substituted replacement matches the pattern and
\* keeps its tokens in the new subject the next search finds a match; and
\* under the rule "a" -> "a" a subject that matched once is searched and
\* replaced for ever.
ReplaceLoopUncapped ==
    /\ [][Found => pc' = "replaced"]_vars
    /\ [][(pc = "searched" /\ pc' = "translate") => matchedPattern.start = Npos]_vars
    /\ [](pc = "searched" => matchedPattern.start = search(sql, parsedPattern).start)
    /\ []((pc = "replaced" /\ SubstitutedMatches /\ ReplacementTokensKept) =>
             search(result, parsedPattern).start # Npos)
    /\ []((replacementPatterns = SelfMatching /\ prev # <<>>) =>
             pc \in {"search", "searched", "replaced"})

\* the rule "a" -> "a" has brought the subject back to what it was and the
\* search has found the match again
FoundAgainInSameSubject ==
    /\ Found
    /\ replacementPatterns = SelfMatching
    /\ prev # <<>>
    /\ prev.subject = sql

----------------------------------------------------------------------------
(* Adjacent variables (Spec) *)

\* C15: for every pattern parseSearchPattern accepts, the block after a
\* variable block is a literal block: no accepted pattern has two adjacent
\* variable blocks, and the terminator a consuming variable is tested
\* against is a literal.
TerminatorIsLiteral ==
    /\ pc \in {"parsed", "search", "searched", "replaced"} =>
          \A i \in 1 .. (Len(parsedPattern) - 1) :
              ~(parsedPattern[i].isVariable /\ parsedPattern[i + 1].isVariable)
    /\ ConsumingVariable => ~BlockAt(parsedPattern, matchCount + 1).isVariable

\* C18: a successful result binds every variable name of the pattern, each to
\* a slice of the subject inside [start, end), and starts at the start of a
\* token that has the text of block 0.
FinalAttemptBindsAll ==
    Found =>
        /\ \A i \in DOMAIN parsedPattern :
              parsedPattern[i].isVariable =>
                  parsedPattern[i].text \in DOMAIN matchedPattern.variableToValue
        /\ \A k \in DOMAIN matchedPattern.variableToValue :
              \E i \in matchedPattern.start .. matchedPattern.end,
                 j \in matchedPattern.start .. matchedPattern.end :
                  IsSliceAt(matchedPattern.variableToValue[k], sql, i, j)
        /\ \E i \in DOMAIN tokens :
              /\ tokens[i].start = matchedPattern.start
              /\ tokens[i].text = BlockAt(parsedPattern, 0).text

\* the pattern texts of JoinedVariables
JoinedPattern == JoinedVariables.rules[1][1]

\* C20 as stated: "a @x@y b" compiles to the blocks a, @x, @y, b, the two
\* variable blocks back to back.
JoinedCompilesToTwoVariables ==
    (pc = "parsed" /\ pattern = JoinedPattern) =>
        parsedPattern = << [text |-> <<"a">>, isVariable |-> FALSE],
                           [text |-> <<"@", "x">>, isVariable |-> TRUE],
                           [text |-> <<"@", "y">>, isVariable |-> TRUE],
                           [text |-> <<"b">>, isVariable |-> FALSE] >>

\* C20 amended: "a @x@y b" compiles to the blocks a, @x@y, b with the one
\* variable block named "@x@y"; two variable blocks are adjacent in a compiled
\* pattern only where the pattern text has a character between them.
JoinedCompilesToOneVariable ==
    /\ (pc = "parsed" /\ pattern = JoinedPattern) =>
          parsedPattern = << [text |-> <<"a">>, isVariable |-> FALSE],
                             [text |-> <<"@", "x", "@", "y">>, isVariable |-> TRUE],
                             [text |-> <<"b">>, isVariable |-> FALSE] >>
    /\ pc = "parsed" =>
          /\ Len(parsedPattern) = Len(PatternTokens.tokens)
          /\ \A i \in 1 .. (Len(parsedPattern) - 1) :
                (parsedPattern[i].isVariable /\ parsedPattern[i + 1].isVariable) =>
                    PatternTokens.tokens[i].end < PatternTokens.tokens[i + 1].start

JoinedParsed == pc = "parsed" /\ pattern = JoinedPattern /\ Len(parsedPattern) = 3

----------------------------------------------------------------------------
(* Nesting and the scan of search (Spec) *)

QuoteOpen == nestStack # <<>> /\ IsQuote(Top(nestStack))

\* no token from the cursor on closes the open quote
NoCloserLeft ==
    \A i \in (cursor + 1) .. Len(tokens) : tokens[i].text # Top(nestStack)

\* C16: while the top of the nesting stack is a quote character, a token
\* changes the stack only by popping it, and only when the token is that
\* same quote character; when no token from the cursor on is that quote
\* character the stack stays as it is and a search that returns returns
\* not-found.
QuoteOpacity ==
    /\ [][(pc = "search" /\ cursor < Len(tokens) /\ QuoteOpen) =>
            nestStack' = IF tokens[cursor + 1].text = Top(nestStack)
                         THEN Pop(nestStack) ELSE nestStack]_vars
    /\ [][(pc = "search" /\ QuoteOpen /\ NoCloserLeft) =>
            /\ nestStack' = nestStack
            /\ pc' = "searched" => matchedPattern'.start = Npos]_vars

\* a search that returned not-found with a quote open, the terminator of the
\* running capture and a "(" among the tokens after the quote
SwallowedByQuote ==
    /\ pc = "searched"
    /\ matchedPattern.start = Npos
    /\ QuoteOpen
    /\ BlockAt(parsedPattern, matchCount).isVariable
    /\ \E q \in DOMAIN tokens :
          /\ tokens[q].text = Top(nestStack)
          /\ \E i \in (q + 1) .. Len(tokens) :
                tokens[i].text = BlockAt(parsedPattern, matchCount + 1).text
          /\ \E i \in (q + 1) .. Len(tokens) : tokens[i].text = <<"(">>

\* C17: search never fails on an accepted pattern: once entered it goes on
\* scanning or returns; at every scan step 0 <= matchCount < Len(pattern), a
\* variable block has a block after it, and the nesting stack is empty at a
\* literal block; it returns a match with start <= end, or not-found when the
\* tokens are exhausted.
SearchNeverFails ==
    /\ [][(pc \in {"parsed", "replaced", "search"}) => (pc' \in {"search", "searched"})]_vars
    /\ [](pc = "search" =>
            /\ 0 <= matchCount /\ matchCount < Len(parsedPattern)
            /\ BlockAt(parsedPattern, matchCount).isVariable =>
                  matchCount + 1 < Len(parsedPattern)
            /\ ~BlockAt(parsedPattern, matchCount).isVariable => nestStack = <<>>)
    /\ [](pc = "searched" =>
            IF matchedPattern.start # Npos
            THEN /\ 0 <= matchedPattern.start
                 /\ matchedPattern.start <= matchedPattern.end
                 /\ matchedPattern.end <= Len(sql)
            ELSE cursor = Len(tokens))

----------------------------------------------------------------------------
(* Block comments (SpecTok) *)

OpensWithBlockComment(s) == Len(s) >= 2 /\ At(s, 0) = "/" /\ At(s, 1) = "*"

\* the offsets after the opener where "*/" stands
LaterCloses(s) ==
    {k \in 2 .. (Len(s) - 2) : At(s, k) = "*" /\ At(s, k + 1) = "/"}

\* C19: a block comment ends only at a "*/" that lies after its "/*": for an
\* input that opens with "/*" and has a later "*/", no token starts before
\* the end of the first such "*/"; "/*/ x */ y" gives the one token y.
BlockCommentEndsAtLaterClose ==
    /\ (pc = "tokenized" /\ OpensWithBlockComment(sql) /\ LaterCloses(sql) # {}) =>
          \A i \in DOMAIN tokens : tokens[i].start >= Leftmost(LaterCloses(sql)) + 2
    /\ (pc = "tokenized" /\ sql = SlashAfterOpener) =>
          [i \in DOMAIN tokens |-> tokens[i].text] = << <<"y">> >>
====
